---------------------------- MODULE Spec2Model ----------------------------
(***************************************************************************)
(* Model of iroha's multi-signature transaction state (MstState,           *)
(* irohad/multi_sig_transactions/state/impl/mst_state.cpp) and of the      *)
(* ordering service (irohad/ordering/impl/ordering_service_impl.hpp).      *)
(*                                                                         *)
(* Batches are heap objects held through shared pointers (DataType): the   *)
(* model keeps a heap of batch objects and the states hold object ids, so  *)
(* that a signature merged into a member is seen through every other       *)
(* pointer to the same object.                                             *)
(***************************************************************************)
EXTENDS Integers, Sequences, FiniteSets, Bags, TLC

\* ------------------------------ bounds ---------------------------------
NumHashes == 2      \* distinct reduced hashes the callers present
NumKeys == 2        \* distinct public keys
MaxObjs == 2        \* batch objects the callers allocate
MaxIndex == 3       \* entries one state's index_ may hold
MaxTime == 2        \* largest time passed to eraseByTime
MaxInputSigs == 2   \* signatures on a batch as a caller presents it

Hashes == 1..NumHashes
PKs == 1..NumKeys
Times == 0..MaxTime

\* ---------------------- batch model and completer ----------------------
\* Number of transactions of the batch with reduced hash h (fixed by the hash).
TxCount(h) == 1 + ((h + 1) % 2)

\* createdTime of the batch with reduced hash h (part of the hashed payload).
CreatedAt(h) == h - 1

\* Signature quorum of every transaction.
Quorum == 2

\* Time to live used by the completer's expiry test.
TTL == 1

\* A signature is <<publicKey, signedData>>; signedData 2 exists for key 1 only.
Signatures == {<<pk, 1>> : pk \in PKs} \cup {<<1, 2>>}

KeysOf(sigs) == {s[1] : s \in sigs}

\* Signature sets a transaction can carry: at most one signature per key.
SigSets == {S \in SUBSET Signatures : \A x, y \in S : x[1] = y[1] => x = y}

\* Completer::operator()(batch): every transaction has its quorum.
is_complete(batch) ==
  \A i \in 1..Len(batch.txs) : Cardinality(batch.txs[i]) >= Quorum

\* Completer::operator()(batch, time): the batch outlived its TTL.
is_expired(batch, time) == time - CreatedAt(batch.hash) >= TTL

\* Transaction::addSignature: rejects a key that already signed.
addSignature(tx, sig) ==
  IF sig[1] \in KeysOf(tx) THEN [tx |-> tx, added |-> FALSE]
  ELSE [tx |-> tx \cup {sig}, added |-> TRUE]


\* ------------------------------ MstState -------------------------------
\* internal_state_.end(): the value of a lookup that finds nothing.
End == 0

\* A batch object as a caller builds it.
Batch(h, txs) == [hash |-> h, txs |-> txs]

\* InternalStateType is an unordered set keyed by the reduced hash:
\* find(b) is the member whose reduced hash equals b's.
find(heap, internal, b) ==
  IF \E o \in internal : heap[o].hash = heap[b].hash
  THEN CHOOSE o \in internal : heap[o].hash = heap[b].hash
  ELSE End

\* The reduced hashes of the members of a state.
HashesOf(heap, state) == {heap[o].hash : o \in state.internal_state_}

\* MstState(completer, transactions): both containers built from the set.
MstStateOf(transactions) ==
  [internal_state_ |-> transactions, index_ |-> SetToBag(transactions)]

\* MstState::empty
empty == MstStateOf({})

\* MstState::isEmpty
isEmpty(state) == state.internal_state_ = {}

\* A rawInsert that replaces the members by the inserted batch.
rawInsert_Replace(heap, state, rhs_batch) ==
  [internal_state_ |-> {rhs_batch},
   index_ |-> state.index_ (+) SetToBag({rhs_batch})]

\* A rawInsert that pushes onto the index and forgets the set insert.
rawInsert_IndexOnly(heap, state, rhs_batch) ==
  [internal_state_ |-> state.internal_state_,
   index_ |-> state.index_ (+) SetToBag({rhs_batch})]

\* MstState::rawInsert: a set insert (no effect on a known hash) and a push.
rawInsert(heap, state, rhs_batch) ==
  [internal_state_ |->
     IF find(heap, state.internal_state_, rhs_batch) = End
     THEN state.internal_state_ \cup {rhs_batch}
     ELSE state.internal_state_,
   index_ |-> state.index_ (+) SetToBag({rhs_batch})]

\* An accumulate whose lambda tests the accumulator first, so that nothing
\* is added once one signature was.
RECURSIVE accumulate_ShortCircuit(_, _)
accumulate_ShortCircuit(tx, sigs) ==
  IF sigs = {} THEN [tx |-> tx, added |-> FALSE]
  ELSE LET sig == CHOOSE x \in sigs : TRUE
           one == addSignature(tx, sig)
       IN IF one.added THEN one ELSE accumulate_ShortCircuit(tx, sigs \ {sig})

\* std::accumulate over the donor's signatures with addSignature.
RECURSIVE accumulate(_, _)
accumulate(tx, sigs) ==
  IF sigs = {} THEN [tx |-> tx, added |-> FALSE]
  ELSE LET sig == CHOOSE x \in sigs : TRUE
           one == addSignature(tx, sig)
           rest == accumulate(one.tx, sigs \ {sig})
       IN [tx |-> rest.tx, added |-> one.added \/ rest.added]

\* A merge that assigns the donor's signatures instead of adding them.
mergeSignaturesInBatch_Overwrite(heap, target, donor) ==
  [heap |-> [heap EXCEPT ![target].txs = heap[donor].txs],
   inserted_new_signatures |-> heap[target].txs # heap[donor].txs]

\* mergeSignaturesInBatch: position by position, the donor's signatures are
\* added to the target object; reports whether any signature was new.
mergeSignaturesInBatch(heap, target, donor) ==
  LET n == Len(heap[target].txs)
      acc(i) == accumulate(heap[target].txs[i], heap[donor].txs[i])
      txs == [i \in 1..n |-> acc(i).tx]
  IN [heap |-> [heap EXCEPT ![target].txs = txs],
      inserted_new_signatures |-> \E i \in 1..n : acc(i).added]

RECURSIVE insertOne(_, _, _, _)

\* operator+=(const DataType &): insert into self, the diff is a fresh state.
OperatorPlusEqBatch(heap, self, rhs) ==
  LET r == insertOne(heap, self, empty, rhs)
  IN [heap |-> r.heap, self |-> r.self, result |-> r.out,
      complete_status |-> r.ret]

\* An insertOne that reports a completed batch and leaves it in the members.
insertOne_KeepCompleted(heap, self, out_state, rhs_batch) ==
  LET corresponding == find(heap, self.internal_state_, rhs_batch)
  IN IF corresponding = End
     THEN [heap |-> heap,
           self |-> rawInsert(heap, self, rhs_batch),
           out |-> rawInsert(heap, out_state, rhs_batch),
           ret |-> FALSE]
     ELSE LET m == mergeSignaturesInBatch(heap, corresponding, rhs_batch)
          IN IF is_complete(m.heap[corresponding])
             THEN [heap |-> m.heap,
                   self |-> self,
                   out |-> rawInsert(m.heap, out_state, corresponding),
                   ret |-> TRUE]
             ELSE [heap |-> m.heap,
                   self |-> self,
                   out |-> IF m.inserted_new_signatures
                           THEN rawInsert(m.heap, out_state, corresponding)
                           ELSE out_state,
                   ret |-> FALSE]

\* MstState::insertOne
insertOne(heap, self, out_state, rhs_batch) ==
  LET corresponding == find(heap, self.internal_state_, rhs_batch)
  IN IF corresponding = End
     THEN [heap |-> heap,
           self |-> rawInsert(heap, self, rhs_batch),
           out |-> rawInsert(heap, out_state, rhs_batch),
           ret |-> FALSE]
     ELSE LET found == corresponding
              m == mergeSignaturesInBatch(heap, found, rhs_batch)
          IN IF is_complete(m.heap[found])
             THEN LET p == OperatorPlusEqBatch(m.heap, out_state, found)
                  IN [heap |-> p.heap,
                      self |-> [self EXCEPT !.internal_state_ = @ \ {found}],
                      out |-> p.self,
                      ret |-> TRUE]
             ELSE [heap |-> m.heap,
                   self |-> self,
                   out |-> IF m.inserted_new_signatures
                           THEN rawInsert(m.heap, out_state, found)
                           ELSE out_state,
                   ret |-> FALSE]

\* operator+=(const MstState &): the members of rhs are folded in the
\* iteration order of rhs.internal_state_, which the hash table decides:
\* the set of results over every order of the members still to fold.
RECURSIVE foldInsert(_, _, _, _)
foldInsert(heap, self, result, todo) ==
  IF todo = {} THEN {[heap |-> heap, self |-> self, result |-> result]}
  ELSE UNION {LET r == insertOne(heap, self, result, rhs_tx)
              IN foldInsert(r.heap, r.self, r.out, todo \ {rhs_tx})
              : rhs_tx \in todo}

\* A merge whose loop stops after the first member of rhs.
OperatorPlusEqState_One(heap, self, rhs) ==
  IF rhs.internal_state_ = {} THEN foldInsert(heap, self, empty, {})
  ELSE UNION {foldInsert(heap, self, empty, {x}) : x \in rhs.internal_state_}

OperatorPlusEqState(heap, self, rhs) ==
  foldInsert(heap, self, empty, rhs.internal_state_)

\* set_difference of common/set.hpp: the elements of left that right's
\* lookup does not find.
set_difference(heap, left, right) ==
  {o \in left : find(heap, right, o) = End}

\* A difference that compares the pointers instead of the reduced hashes.
OperatorMinus_ByPointer(heap, self, rhs) ==
  MstStateOf(self.internal_state_ \ rhs.internal_state_)

\* operator-
OperatorMinus(heap, self, rhs) ==
  MstStateOf(set_difference(heap, self.internal_state_, rhs.internal_state_))

\* getBatches: the members sorted by the hex of the reduced hash.
RECURSIVE sortByHash(_, _)
sortByHash(heap, objs) ==
  IF objs = {} THEN <<>>
  ELSE LET least == CHOOSE o \in objs :
                      \A p \in objs : heap[o].hash <= heap[p].hash
       IN <<least>> \o sortByHash(heap, objs \ {least})

getBatches(heap, state) == sortByHash(heap, state.internal_state_)

\* operator==: std::equal over both sorted sequences with the batches'
\* structural equality (reduced hash and signatures).
OperatorEq(heap, lhs, rhs) ==
  LET l == getBatches(heap, lhs)
      r == getBatches(heap, rhs)
  IN /\ Len(l) = Len(r)
     /\ \A i \in 1..Len(l) : heap[l[i]] = heap[r[i]]

\* index_.top(): the expiry index is a min-heap on the creation time; among
\* entries of equal time the heap layout decides.
top(heap, index) ==
  {o \in BagToSet(index) :
     \A p \in BagToSet(index) :
        CreatedAt(heap[o].hash) <= CreatedAt(heap[p].hash)}

\* index_.pop() of the entry that was top.
pop(index, o) == index (-) SetToBag({o})

\* Lines 72-75 when find misses: dereferencing and erasing end() is
\* undefined. The build either faults, or carries on with an indeterminate
\* iterator: *iter is nothing (End) or some batch object g, which is folded
\* into out and erased from the members if it is one.
eraseMiss(heap, self, out) ==
  {[heap |-> heap, self |-> self, out |-> out, status |-> "crashed"]}
  \cup
  {[heap |-> heap, self |-> self, out |-> out, status |-> "miss"]}
  \cup
  {LET r == OperatorPlusEqBatch(heap, out, g)
   IN [heap |-> r.heap,
       self |-> [self EXCEPT !.internal_state_ = @ \ {g}],
       out |-> r.self,
       status |-> "miss"] : g \in 1..Len(heap)}

\* MstState::eraseByTime: the set of results the loop can end with; status is
\* "ok", "miss" (a lookup missed and the loop went on) or "crashed".
RECURSIVE eraseLoop(_, _, _, _, _)
eraseLoop(heap, self, out, time, status) ==
  IF self.index_ = EmptyBag
  THEN {[heap |-> heap, self |-> self, out |-> out, status |-> status]}
  ELSE UNION {
    IF ~is_expired(heap[t], time)
    THEN {[heap |-> heap, self |-> self, out |-> out, status |-> status]}
    ELSE LET iter == find(heap, self.internal_state_, t)
         IN IF iter = End
            THEN UNION {
                   IF u.status = "crashed" THEN {u}
                   ELSE eraseLoop(u.heap,
                                  [u.self EXCEPT !.index_ = pop(@, t)],
                                  u.out, time, "miss")
                   : u \in eraseMiss(heap, self, out)}
            ELSE LET r == OperatorPlusEqBatch(heap, out, iter)
                 IN eraseLoop(r.heap,
                              [internal_state_ |-> self.internal_state_ \ {iter},
                               index_ |-> pop(self.index_, t)],
                              r.self, time, status)
    : t \in top(heap, self.index_)}

eraseByTime(heap, self, time) == eraseLoop(heap, self, empty, time, "ok")

\* ------------------------------- state ---------------------------------
VARIABLES
  heap,       \* the batch objects allocated so far, by object id
  state,      \* the MstState under test
  ret,        \* the last call on the state and what it returned
  observed,   \* per hash and position, every signature seen on a member
  queue_,     \* ordering service: the buffered transactions
  proposals,  \* ordering service: the proposals emitted so far
  height,     \* ordering service: the height of the last proposal
  pc,         \* ordering service: the position of the ordering loop
  collected,  \* ordering service: the transactions drained by this fire
  lastFire,   \* ordering service: how the last fire ended
  delivered,  \* ordering service: per peer, the heights it received
  errors,     \* ordering service: per peer, the heights whose send failed
  nextTx      \* ordering service: the next transaction id to arrive

mstVars == <<heap, state, ret, observed>>
ordVars == <<queue_, proposals, height, pc, collected, lastFire, delivered,
             errors, nextTx>>
vars == <<heap, state, ret, observed, queue_, proposals, height, pc,
          collected, lastFire, delivered, errors, nextTx>>

RECURSIVE SumCard(_, _)
SumCard(txs, n) == IF n = 0 THEN 0 ELSE Cardinality(txs[n]) + SumCard(txs, n - 1)

\* The batches a caller can present for hash h: signed, by few signatures.
InputTxs(h) ==
  {txs \in [1..TxCount(h) -> SigSets] :
     SumCard(txs, TxCount(h)) \in 1..MaxInputSigs}

\* The states another node can hold: any set of batch objects, one per hash
\* (an empty state into which they were inserted one by one).
OtherStates ==
  {MstStateOf(objs) : objs \in
     {S \in SUBSET (1..Len(heap)) :
        \A x, y \in S : heap[x].hash = heap[y].hash => x = y}}

\* What the model keeps of a call: all of it, or only whether it crashed.
Full == TRUE

NoCall ==
  [op |-> "none", b |-> End, other |-> empty, time |-> 0,
   out |-> empty, completed |-> FALSE, status |-> "ok"]

Bare == FALSE

Kept(full, call) ==
  IF full THEN call ELSE [NoCall EXCEPT !.status = call.status]

Running == ret.status # "crashed"

Fits(s) == BagCardinality(s.index_) <= MaxIndex

\* A caller builds a new batch object and inserts it: state += batch.
InsertNew(h, txs, full) ==
  /\ Running
  /\ Len(heap) < MaxObjs
  /\ LET b == Len(heap) + 1
         r == OperatorPlusEqBatch(Append(heap, Batch(h, txs)), state, b)
     IN /\ Fits(r.self)
        /\ heap' = r.heap
        /\ state' = r.self
        /\ ret' = Kept(full, [NoCall EXCEPT !.op = "insert", !.b = b, !.out = r.result,
                                 !.completed = r.complete_status])

\* A caller inserts a batch object it already holds a pointer to.
InsertHeld(b, full) ==
  /\ Running
  /\ b \in 1..Len(heap)
  /\ LET r == OperatorPlusEqBatch(heap, state, b)
     IN /\ Fits(r.self)
        /\ heap' = r.heap
        /\ state' = r.self
        /\ ret' = Kept(full, [NoCall EXCEPT !.op = "insert", !.b = b, !.out = r.result,
                                 !.completed = r.complete_status])

\* state += other
Merge(other, full) ==
  /\ Running
  /\ \E r \in OperatorPlusEqState(heap, state, other) :
        /\ Fits(r.self)
        /\ heap' = r.heap
        /\ state' = r.self
        /\ ret' = Kept(full, [NoCall EXCEPT !.op = "merge", !.other = other,
                                 !.out = r.result])

\* state - other: a new state is returned, both operands are const.
Difference(other, full) ==
  /\ Running
  /\ heap' = heap
  /\ state' = state
  /\ ret' = Kept(full, [NoCall EXCEPT !.op = "difference", !.other = other,
                           !.out = OperatorMinus(heap, state, other)])

\* state.eraseByTime(time)
EraseByTime(time, full) ==
  /\ Running
  /\ \E r \in eraseByTime(heap, state, time) :
        /\ heap' = r.heap
        /\ state' = r.self
        /\ ret' = Kept(full, [NoCall EXCEPT !.op = "erase", !.time = time,
                                 !.out = r.out, !.status = r.status])

\* The signatures of the member of s with hash h, per position (nothing when
\* h is no member).
MemberSigs(hp, s, h) ==
  [i \in 1..TxCount(h) |->
     UNION {hp[o].txs[i] : o \in {m \in s.internal_state_ : hp[m].hash = h}}]

Keep == UNCHANGED <<observed, ordVars>>

\* Every signature seen on a member so far, per hash and position.
Track ==
  /\ observed' = [h \in Hashes |-> [i \in 1..TxCount(h) |->
                    observed[h][i] \cup MemberSigs(heap', state', h)[i]]]
  /\ UNCHANGED ordVars

\* --------------------------- ordering service --------------------------
max_size_ == 2    \* max number of txs in proposal, given to the constructor
MaxTxs == 4       \* transactions that arrive in all
NumPeers == 2     \* peers in the peer table

Peers == 1..NumPeers

\* SendTransaction with a transaction the factory converts: handleTransaction
\* enqueues it and the call returns OK.
SendTransaction ==
  /\ nextTx <= MaxTxs
  /\ queue_' = Append(queue_, nextTx)
  /\ nextTx' = nextTx + 1
  /\ UNCHANGED <<proposals, height, pc, collected, lastFire, delivered,
                 errors>>

\* SendTransaction with a transaction the factory rejects: INVALID_ARGUMENT,
\* nothing is enqueued.
SendInvalid ==
  /\ nextTx <= MaxTxs
  /\ nextTx' = nextTx + 1
  /\ UNCHANGED <<queue_, proposals, height, pc, collected, lastFire,
                 delivered, errors>>

\* The timer fires after delay_milliseconds_.
TimerFire ==
  /\ pc = "Idle"
  /\ pc' = "Collecting"
  /\ collected' = <<>>
  /\ UNCHANGED <<queue_, proposals, height, lastFire, delivered, errors,
                 nextTx>>

\* The buffer reached max_size_: the loop is woken without the timer.
EarlyFire ==
  /\ pc = "Idle"
  /\ Len(queue_) >= max_size_
  /\ pc' = "Collecting"
  /\ collected' = <<>>
  /\ UNCHANGED <<queue_, proposals, height, lastFire, delivered, errors,
                 nextTx>>

\* A drain that takes the newest transaction of the buffer.
Drain_Newest ==
  /\ pc = "Collecting"
  /\ Len(collected) < max_size_
  /\ queue_ # <<>>
  /\ collected' = Append(collected, queue_[Len(queue_)])
  /\ queue_' = SubSeq(queue_, 1, Len(queue_) - 1)
  /\ UNCHANGED <<proposals, height, pc, lastFire, delivered, errors, nextTx>>

\* generateProposal, one dequeue of the drain (producers may enqueue between
\* two dequeues).
Drain ==
  /\ pc = "Collecting"
  /\ Len(collected) < max_size_
  /\ queue_ # <<>>
  /\ collected' = Append(collected, Head(queue_))
  /\ queue_' = Tail(queue_)
  /\ UNCHANGED <<proposals, height, pc, lastFire, delivered, errors, nextTx>>

\* A generateProposal that emits whatever was drained, nothing included.
generateProposal_EmitEmpty ==
  /\ pc = "Collecting"
  /\ Len(collected) = max_size_ \/ queue_ = <<>>
  /\ pc' = "Publishing"
  /\ lastFire' = "emitted"
  /\ height' = height + 1
  /\ proposals' = Append(proposals,
                         [height |-> height + 1, transactions |-> collected])
  /\ UNCHANGED <<queue_, collected, delivered, errors, nextTx>>

\* A generateProposal that stamps every proposal with the same height.
generateProposal_SameHeight ==
  /\ pc = "Collecting"
  /\ Len(collected) = max_size_ \/ queue_ = <<>>
  /\ IF collected = <<>>
     THEN /\ pc' = "Idle"
          /\ lastFire' = "skipped"
          /\ UNCHANGED <<proposals, height>>
     ELSE /\ pc' = "Publishing"
          /\ lastFire' = "emitted"
          /\ height' = 1
          /\ proposals' = Append(proposals,
                                 [height |-> 1, transactions |-> collected])
  /\ UNCHANGED <<queue_, collected, delivered, errors, nextTx>>

\* A generateProposal that forgets what it drained.
generateProposal_DropDrained ==
  /\ pc = "Collecting"
  /\ Len(collected) = max_size_ \/ queue_ = <<>>
  /\ pc' = "Idle"
  /\ lastFire' = "skipped"
  /\ UNCHANGED <<proposals, height>>
  /\ UNCHANGED <<queue_, collected, delivered, errors, nextTx>>

\* generateProposal, the end of the drain: nothing drained skips the
\* emission, otherwise the proposal gets the next height.
generateProposal ==
  /\ pc = "Collecting"
  /\ Len(collected) = max_size_ \/ queue_ = <<>>
  /\ IF collected = <<>>
     THEN /\ pc' = "Idle"
          /\ lastFire' = "skipped"
          /\ UNCHANGED <<proposals, height>>
     ELSE /\ pc' = "Publishing"
          /\ lastFire' = "emitted"
          /\ height' = height + 1
          /\ proposals' = Append(proposals,
                                 [height |-> height + 1,
                                  transactions |-> collected])
  /\ UNCHANGED <<queue_, collected, delivered, errors, nextTx>>

\* A publishProposal that gives up at the first peer whose call fails.
publishProposal_AbortOnFailure(failed) ==
  /\ pc = "Publishing"
  /\ delivered' = [p \in Peers |->
                     IF \E q \in failed : q <= p THEN delivered[p]
                     ELSE Append(delivered[p], height)]
  /\ errors' = [p \in Peers |->
                  IF p \in failed /\ \A q \in failed : p <= q
                  THEN Append(errors[p], height)
                  ELSE errors[p]]
  /\ pc' = "Idle"
  /\ UNCHANGED <<queue_, proposals, height, collected, lastFire, nextTx>>

\* publishProposal: onProposal is invoked on every peer; the peers in failed
\* answer with an error, which is logged.
publishProposal(failed) ==
  /\ pc = "Publishing"
  /\ delivered' = [p \in Peers |->
                     IF p \in failed THEN delivered[p]
                     ELSE Append(delivered[p], height)]
  /\ errors' = [p \in Peers |->
                  IF p \in failed THEN Append(errors[p], height)
                  ELSE errors[p]]
  /\ pc' = "Idle"
  /\ UNCHANGED <<queue_, proposals, height, collected, lastFire, nextTx>>

Init ==
  /\ heap = <<>>
  /\ state = empty
  /\ ret = NoCall
  /\ observed = [h \in Hashes |-> [i \in 1..TxCount(h) |-> {}]]
  /\ queue_ = <<>>
  /\ proposals = <<>>
  /\ height = 0
  /\ pc = "Idle"
  /\ collected = <<>>
  /\ lastFire = "none"
  /\ delivered = [p \in Peers |-> <<>>]
  /\ errors = [p \in Peers |-> <<>>]
  /\ nextTx = 1

\* The calls on the MstState.
Next ==
  \/ \E h \in Hashes : \E txs \in InputTxs(h) : InsertNew(h, txs, Full) /\ Keep
  \/ \E b \in 1..MaxObjs : InsertHeld(b, Full) /\ Keep
  \/ \E other \in OtherStates : Merge(other, Full) /\ Keep
  \/ \E other \in OtherStates : Difference(other, Full) /\ Keep
  \/ \E time \in Times : EraseByTime(time, Full) /\ Keep

Spec == Init /\ [][Next]_vars

\* The same calls, with the signatures seen on the members recorded.
NextObs ==
  \/ \E h \in Hashes : \E txs \in InputTxs(h) : InsertNew(h, txs, Full) /\ Track
  \/ \E b \in 1..MaxObjs : InsertHeld(b, Full) /\ Track
  \/ \E other \in OtherStates : Merge(other, Full) /\ Track
  \/ \E other \in OtherStates : Difference(other, Full) /\ Track
  \/ \E time \in Times : EraseByTime(time, Full) /\ Track

SpecObs == Init /\ [][NextObs]_vars

\* The same calls, keeping no record of the call: the states the MstState
\* and the heap can be in.
NextBare ==
  \/ \E h \in Hashes : \E txs \in InputTxs(h) : InsertNew(h, txs, Bare) /\ Keep
  \/ \E b \in 1..MaxObjs : InsertHeld(b, Bare) /\ Keep
  \/ \E other \in OtherStates : Merge(other, Bare) /\ Keep
  \/ \E other \in OtherStates : Difference(other, Bare) /\ Keep
  \/ \E time \in Times : EraseByTime(time, Bare) /\ Keep

SpecBare == Init /\ [][NextBare]_vars

\* The ordering service: producers, the timer and the ordering loop.
NextOrd ==
  \/ SendTransaction /\ UNCHANGED mstVars
  \/ SendInvalid /\ UNCHANGED mstVars
  \/ TimerFire /\ UNCHANGED mstVars
  \/ EarlyFire /\ UNCHANGED mstVars
  \/ Drain /\ UNCHANGED mstVars
  \/ generateProposal /\ UNCHANGED mstVars
  \/ \E failed \in SUBSET Peers : publishProposal(failed) /\ UNCHANGED mstVars

SpecOrd == Init /\ [][NextOrd]_vars

\* The ordering service with its scheduling: the timer of the event loop
\* keeps firing, the loop is woken when the buffer is full, and a started
\* generateProposal and publishProposal run to their end.
SpecOrdLive ==
  /\ Init
  /\ [][NextOrd]_vars
  /\ WF_vars(TimerFire /\ UNCHANGED mstVars)
  /\ WF_vars(EarlyFire /\ UNCHANGED mstVars)
  /\ WF_vars(Drain /\ UNCHANGED mstVars)
  /\ WF_vars(generateProposal /\ UNCHANGED mstVars)
  /\ WF_vars(\E failed \in SUBSET Peers :
               publishProposal(failed) /\ UNCHANGED mstVars)

\* ------------------------------- claims --------------------------------
Members == state.internal_state_

\* The number of entries of the expiry index whose reduced hash is h.
IndexEntries(hp, s, h) ==
  LET same == {o \in BagToSet(s.index_) : hp[o].hash = h}
  IN BagCardinality([o \in same |-> s.index_[o]])

\* C1: in every reachable state no member satisfies is_complete, also when
\* the first insertion of a batch already carries its full quorum.
C1_NoCompleteMember == \A o \in Members : ~is_complete(heap[o])

\* C2: the expiry index and the members are coherent: every member's hash
\* occurs exactly once in the index and the index holds no hash that is not
\* a member.
C2_IndexCoherent ==
  /\ \A o \in Members : IndexEntries(heap, state, heap[o].hash) = 1
  /\ \A e \in BagToSet(state.index_) : heap[e].hash \in HashesOf(heap, state)

\* C3: after an insert that returned completed = true, no member has the
\* inserted batch's reduced hash.
C3_CompletionEvicts ==
  (ret.op = "insert" /\ ret.completed)
    => heap[ret.b].hash \notin HashesOf(heap, state)

\* C3 witness: an insert has just completed a batch.
C3_Witness == ret.op = "insert" /\ ret.completed

\* C4: after eraseByTime(t) returns, no remaining member is expired at t,
\* every member that was expired at t is gone and is in the returned state,
\* and no other member was removed.
C4_ExpiryTotal ==
  [][(ret'.op = "erase" /\ ret'.status # "crashed") =>
       LET expired == {m \in Members : is_expired(heap[m], ret'.time)}
       IN /\ state'.internal_state_ = Members \ expired
          /\ \A m \in state'.internal_state_ :
                ~is_expired(heap'[m], ret'.time)
          /\ {heap[m].hash : m \in expired}
               \subseteq HashesOf(heap', ret'.out)]_vars

\* C5 as stated: whenever a batch with hash h is a member, its signatures
\* include every signature seen earlier on a member with hash h, also across
\* a completion and a new insertion of h.
C5_MonotoneAcrossLifetimes ==
  \A h \in HashesOf(heap, state) : \A i \in 1..TxCount(h) :
     observed[h][i] \subseteq MemberSigs(heap, state, h)[i]

\* C5 amended: over every call, a batch that is a member before and after
\* the call keeps all the signatures it had.
C5_MonotoneWhileMember ==
  [][\A h \in HashesOf(heap, state) \cap HashesOf(heap', state') :
       \A i \in 1..TxCount(h) :
          MemberSigs(heap, state, h)[i]
            \subseteq MemberSigs(heap', state', h)[i]]_vars

\* C5 witness: an insert merged a new signature into a member that stayed.
C5_Witness ==
  /\ ret.op = "insert"
  /\ ~ret.completed
  /\ ~isEmpty(ret.out)
  /\ find(heap, Members, ret.b) \notin {End, ret.b}

\* getBatches as values: the sorted members' reduced hashes and signatures.
BatchesValue(hp, s) ==
  LET l == getBatches(hp, s) IN [i \in 1..Len(l) |-> hp[l[i]]]

\* The same, a signature identified by its public key alone.
BatchesKeys(hp, s) ==
  LET l == getBatches(hp, s)
  IN [i \in 1..Len(l) |->
        [hash |-> hp[l[i]].hash,
         keys |-> [j \in 1..Len(hp[l[i]].txs) |-> KeysOf(hp[l[i]].txs[j])]]]

\* The batches a caller can present, for any hash.
FreshBatches == UNION {{Batch(h, txs) : txs \in InputTxs(h)} : h \in Hashes}

\* A number that orders the batches a caller can present (each unordered
\* pair of new batches is taken once).
RECURSIVE SetCode(_)
SetCode(sigs) ==
  IF sigs = {} THEN 0
  ELSE LET sig == CHOOSE x \in sigs : TRUE
       IN 2 ^ (2 * (sig[1] - 1) + (sig[2] - 1)) + SetCode(sigs \ {sig})

RECURSIVE TxsCode(_, _)
TxsCode(txs, n) ==
  IF n = 0 THEN 0
  ELSE SetCode(txs[n]) + (2 ^ (2 * NumKeys)) * TxsCode(txs, n - 1)

BatchCode(b) == TxsCode(b.txs, Len(b.txs))

\* The unordered pairs of new batches.
FreshPairs ==
  {p \in FreshBatches \X FreshBatches :
     \/ p[1].hash < p[2].hash
     \/ p[1].hash = p[2].hash /\ BatchCode(p[1]) <= BatchCode(p[2])}

\* Equal get_batches(): reduced hashes and, per transaction, the public keys
\* that signed.
SameKeys(xy, yx, sameHash, completed) ==
  BatchesKeys(xy.heap, xy.self) = BatchesKeys(yx.heap, yx.self)

\* Batches of different hashes: equal with the signatures in full. Batches of
\* one hash: equal by public keys unless an insertion completed a batch.
SameUnlessCompleted(xy, yx, sameHash, completed) ==
  IF ~sameHash
  THEN BatchesValue(xy.heap, xy.self) = BatchesValue(yx.heap, yx.self)
  ELSE ~completed => SameKeys(xy, yx, sameHash, completed)

\* Whether the two ends are as wanted: strictly equal by keys, or equal
\* unless an insertion completed a batch of the shared hash.
Same(strict, xy, yx, sameHash, completed) ==
  IF strict THEN SameKeys(xy, yx, sameHash, completed)
  ELSE SameUnlessCompleted(xy, yx, sameHash, completed)

\* state.insert(x); state.insert(y) against state.insert(y); state.insert(x)
\* on the heap hp.
BothOrders(hp, x, y, strict) ==
  LET x1 == OperatorPlusEqBatch(hp, state, x)
      x2 == OperatorPlusEqBatch(x1.heap, x1.self, y)
      y1 == OperatorPlusEqBatch(hp, state, y)
      y2 == OperatorPlusEqBatch(y1.heap, y1.self, x)
  IN Same(strict, x2, y2,
          hp[x].hash = hp[y].hash,
          x1.complete_status \/ x2.complete_status
            \/ y1.complete_status \/ y2.complete_status)

\* Every pair of batches: two held objects, a held object and a new one, or
\* two new ones.
EveryPair(strict) ==
  /\ \A x, y \in 1..Len(heap) : x < y => BothOrders(heap, x, y, strict)
  /\ \A x \in 1..Len(heap) : \A f \in FreshBatches :
        BothOrders(Append(heap, f), x, Len(heap) + 1, strict)
  /\ \A p \in FreshPairs :
        BothOrders(heap \o <<p[1], p[2]>>, Len(heap) + 1, Len(heap) + 2, strict)

\* The members after merge(other) do not depend on the order of the fold.
MergeOrderFree ==
  \A other \in OtherStates :
     Cardinality({BatchesValue(r.heap, r.self) :
                    r \in OperatorPlusEqState(heap, state, other)}) = 1

CompletesWith(hp, s, other, h) ==
  \E m \in s.internal_state_ : \E d \in other.internal_state_ :
     /\ hp[m].hash = h
     /\ hp[d].hash = h
     /\ \A i \in 1..TxCount(h) :
           Cardinality(KeysOf(hp[m].txs[i]) \cup KeysOf(hp[d].txs[i]))
             >= Quorum

C8_Difference ==
  [][ret'.op = "difference" =>
       LET out == ret'.out
       IN /\ out.internal_state_ =
               {m \in Members : heap[m].hash \notin HashesOf(heap, ret'.other)}
          /\ \A m \in out.internal_state_ :
                IndexEntries(heap, out, heap[m].hash) = 1
          /\ BagCardinality(out.index_) = Cardinality(out.internal_state_)
          /\ state' = state
          /\ heap' = heap]_vars

\* C8 witness: a difference has just dropped a member because other holds
\* another batch object of the same hash with other signatures.
C8_Witness ==
  /\ ret.op = "difference"
  /\ \E m \in Members : \E o \in ret.other.internal_state_ :
        /\ heap[m].hash = heap[o].hash
        /\ heap[m].txs # heap[o].txs
        /\ m \notin ret.out.internal_state_

\* C9: merging a state into an empty state leaves it equal to that state,
\* and merging an empty state changes nothing and returns an empty diff.
C9_MergeIdentity ==
  [][ret'.op = "merge" =>
       /\ state = empty => OperatorEq(heap', state', ret'.other)
       /\ isEmpty(ret'.other) =>
             (state' = state /\ heap' = heap /\ ret'.out = empty)]_vars

\* C9 witness: a state with a batch has just been merged into a state that
\* was empty (its index holds nothing but what the merge pushed).
C9_Witness ==
  /\ ret.op = "merge"
  /\ ~isEmpty(ret.other)
  /\ state = MstStateOf(ret.other.internal_state_)

\* C10: every emitted proposal holds at least 1 and at most max_size
\* transactions.
C10_ProposalSize ==
  \A i \in 1..Len(proposals) :
     Len(proposals[i].transactions) \in 1..max_size_

\* C10 witness: a proposal of max_size transactions was emitted, a later fire
\* drained nothing and emitted nothing, and transactions are buffered again.
C10_Witness ==
  /\ \E i \in 1..Len(proposals) : Len(proposals[i].transactions) = max_size_
  /\ lastFire = "skipped"
  /\ queue_ # <<>>

RECURSIVE Emitted(_)
Emitted(n) ==
  IF n = 0 THEN <<>> ELSE Emitted(n - 1) \o proposals[n].transactions

\* Every accepted transaction: emitted, drained by the running
\* generateProposal, or still buffered.
Flow ==
  Emitted(Len(proposals))
    \o (IF pc = "Collecting" THEN collected ELSE <<>>)
    \o queue_

Increasing(seq) == \A i, j \in 1..Len(seq) : i < j => seq[i] < seq[j]

\* C12: over every step of producers and drain, the accepted transactions
\* (emitted, being drained, buffered, in this order) stay the same sequence
\* or grow by the transaction just enqueued at the end: none is lost, none
\* is duplicated, and the proposals list them in the order of the enqueues.
C12_ExactlyOnceInOrder ==
  [][/\ \/ Flow' = Flow
        \/ Flow' = Append(Flow, nextTx) /\ queue_' = Append(queue_, nextTx)
     /\ Increasing(Flow')]_vars

\* C12 witness: a proposal was emitted, the drain of the next one is under
\* way and a producer's transaction is in the buffer behind it.
C12_Witness ==
  /\ Len(proposals) >= 1
  /\ pc = "Collecting"
  /\ collected # <<>>
  /\ Len(collected) < max_size_
  /\ queue_ # <<>>

IsEmitted(t) ==
  \E i \in 1..Len(proposals) :
     \E k \in 1..Len(proposals[i].transactions) :
        proposals[i].transactions[k] = t

Published ==
  {proposals[i].height : i \in 1..Len(proposals)}
    \ (IF pc = "Publishing" THEN {height} ELSE {})

Count(seq, x) == Cardinality({i \in 1..Len(seq) : seq[i] = x})

\* C14: onProposal was called exactly once on every peer for every published
\* proposal (answered or failed), whatever calls failed before; publication
\* ends in Idle, and after a failure buffered transactions still lead to a
\* new proposal.
C14_PublishTolerant ==
  /\ [](\A p \in Peers : \A h \in Published :
           Count(delivered[p], h) + Count(errors[p], h) = 1)
  /\ [][pc = "Publishing" /\ pc' # pc => pc' = "Idle"]_vars
  /\ (pc = "Publishing" ~> pc = "Idle")
  /\ \A n \in 0..MaxTxs :
        (/\ Len(proposals) = n
         /\ queue_ # <<>>
         /\ \E p \in Peers : errors[p] # <<>>) ~> Len(proposals) > n

\* C14 witness: three proposals were published, every call to peer 1 failed
\* and peer 2 received all three.
C14_Witness ==
  /\ pc = "Idle"
  /\ Len(errors[1]) = 3
  /\ delivered[1] = <<>>
  /\ Len(delivered[2]) = 3

\* C15: eraseByTime never fails: every entry it pops from index_ is found in
\* internal_state_, so no call ends with a missed lookup or a fault.
C15_EraseNeverMisses == ret.op = "erase" => ret.status = "ok"

\* C16: an insert that completes a batch returns a diff without that batch:
\* the diff of a completing insert is empty.
C16_CompletedNotInDiff ==
  (ret.op = "insert" /\ ret.completed) => isEmpty(ret.out)

\* The members of state whose reduced hash is that of the batch inserted by
\* the step (at most one).
Target == {m \in Members : heap[m].hash = heap'[ret'.b].hash}

\* The member m holds every signature of the batch the step inserts.
Known(m) ==
  \A i \in 1..Len(heap[m].txs) : heap'[ret'.b].txs[i] \subseteq heap[m].txs[i]

\* C17: an insert of a batch whose signatures a member of the same reduced
\* hash already holds returns an empty diff and completed = false and leaves
\* the members and their signatures as they were.
C17_KnownIsNoOp ==
  [][ret'.op = "insert" =>
       \A m \in Target :
          Known(m) =>
            /\ isEmpty(ret'.out)
            /\ ~ret'.completed
            /\ state'.internal_state_ = Members
            /\ \A o \in Members : heap'[o] = heap[o]]_vars

\* C17 for members that are not complete before the insert (a complete batch
\* is a member only by the first insertion that C1 is about).
C17_KnownIsNoOpOnPartial ==
  [][ret'.op = "insert" =>
       \A m \in Target :
          (Known(m) /\ ~is_complete(heap[m])) =>
            /\ isEmpty(ret'.out)
            /\ ~ret'.completed
            /\ state'.internal_state_ = Members
            /\ \A o \in Members : heap'[o] = heap[o]]_vars

\* The batch the step inserts, as the caller passed it.
Donor == IF ret'.b \in 1..Len(heap) THEN heap[ret'.b] ELSE heap'[ret'.b]

\* The signatures of sigs whose public key did not sign tx yet.
NewByKey(tx, sigs) == {sg \in sigs : sg[1] \notin KeysOf(tx)}

\* C18: after an insert that found a member m and did not complete it, every
\* transaction of m holds what it held plus the donor's signatures at the
\* same position whose key it did not hold, and the diff holds m iff some
\* transaction gained a signature (it is empty otherwise).
C18_UnionByKey ==
  [][(ret'.op = "insert" /\ ~ret'.completed) =>
       \A m \in Target :
          /\ \A i \in 1..Len(heap[m].txs) :
                heap'[m].txs[i]
                  = heap[m].txs[i] \cup NewByKey(heap[m].txs[i], Donor.txs[i])
          /\ ret'.out.internal_state_
               = IF \E i \in 1..Len(heap[m].txs) :
                       NewByKey(heap[m].txs[i], Donor.txs[i]) # {}
                 THEN {m} ELSE {}]_vars

\* C18 witness: an insert merged into a member of two transactions that
\* stays incomplete: one transaction gained a signature and another kept its
\* signature of a key for which the donor carried other signed data.
C18_Witness ==
  /\ ret.op = "insert"
  /\ ~ret.completed
  /\ \E m \in Members :
        /\ m # ret.b
        /\ heap[m].hash = heap[ret.b].hash
        /\ ret.out.internal_state_ = {m}
        /\ \E i \in 1..Len(heap[m].txs) :
              \E x \in heap[m].txs[i] : \E y \in heap[ret.b].txs[i] :
                 x[1] = y[1] /\ x # y

\* C19: the state stores copies: no call on the state changes the signatures
\* of a batch object a caller holds (the batch passed to insert, the batches
\* of a merged state, the batches of a returned diff).
C19_CallerBatchesUntouched ==
  [][\A o \in 1..Len(heap) : heap'[o] = heap[o]]_vars

\* The capacity of the proposal buffer that the bound is stated for.
Capacity == 3

\* C20: the proposal buffer never holds more transactions than its capacity
\* (an enqueue at capacity is refused and the buffer stays as it was).
C20_BufferBounded == Len(queue_) <= Capacity

=============================================================================
